---- MODULE Spec2Model ----
(***************************************************************************)
(* Model of .github/scripts/sync_render_env.py: the script scans a fixed   *)
(* list of environment-variable names, keeps the ones that are set to a    *)
(* non-empty value, appends two fixed entries and prints the list as JSON. *)
(*                                                                         *)
(* A string value is a sequence of one-character strings, so that the JSON *)
(* string encoder can be modelled character by character.  Names of        *)
(* variables are TLA+ strings.  The text written to standard output is a   *)
(* TLA+ string.                                                            *)
(***************************************************************************)
EXTENDS Integers, Sequences, FiniteSets

VARIABLES
    environ,    \* os.environ of the running process: a map name -> value
    keys,       \* the module-level list `keys`
    i,          \* position of the list comprehension's iterator in keys
    env_vars,   \* the list being built (line 14), then extended (line 15)
    stdout,     \* the texts written to standard output by this process
    pc,         \* "scan", "append", "print", "done", or "fault" (KeyError)
    prev        \* <<>> or <<[environ, stdout]>> of the previous invocation

vars == <<environ, keys, i, env_vars, stdout, pc, prev>>

(***************************************************************************)
(* Bound of the model: the host sets at most MaxSet variables.             *)
(***************************************************************************)
MaxSet == 2

(***************************************************************************)
(* The fixed name list as the specification's section 6 gives it, and the  *)
(* two fixed trailing records.  The claims are stated against these.       *)
(***************************************************************************)
NameList ==
    << "MONGODB_URI", "JWT_KEY", "BACKEND_API_URL", "ALLOWED_ORIGINS",
       "FRONTEND_URL", "GOOGLE_CLIENT_ID", "GOOGLE_CLIENT_SECRET",
       "MICROSOFT_CLIENT_ID", "MICROSOFT_CLIENT_SECRET", "STRIPE_SECRET_KEY",
       "STRIPE_PUBLISHABLE_KEY", "STRIPE_WEBHOOK_SECRET", "PAYPAL_CLIENT_ID",
       "PAYPAL_CLIENT_SECRET", "MPESA_CONSUMER_KEY", "MPESA_CONSUMER_SECRET",
       "MPESA_CALLBACK_URL", "CLOUDINARY_CLOUD_NAME", "CLOUDINARY_API_KEY",
       "CLOUDINARY_API_SECRET" >>

ListedNames == { NameList[j] : j \in 1..Len(NameList) }

NodeEnvRecord ==
    [key |-> "NODE_ENV",
     value |-> << "p", "r", "o", "d", "u", "c", "t", "i", "o", "n" >>]

PortRecord == [key |-> "PORT", value |-> << "3", "0", "0", "1" >>]

(***************************************************************************)
(* The literal of lines 4-13.                                              *)
(***************************************************************************)
keys_literal_with_node_env == Append(NameList, "NODE_ENV")

keys_literal_with_path == Append(NameList, "PATH")

keys_literal ==
    << "MONGODB_URI", "JWT_KEY", "BACKEND_API_URL",
       "ALLOWED_ORIGINS", "FRONTEND_URL",
       "GOOGLE_CLIENT_ID", "GOOGLE_CLIENT_SECRET",
       "MICROSOFT_CLIENT_ID", "MICROSOFT_CLIENT_SECRET",
       "STRIPE_SECRET_KEY", "STRIPE_PUBLISHABLE_KEY", "STRIPE_WEBHOOK_SECRET",
       "PAYPAL_CLIENT_ID", "PAYPAL_CLIENT_SECRET",
       "MPESA_CONSUMER_KEY", "MPESA_CONSUMER_SECRET", "MPESA_CALLBACK_URL",
       "CLOUDINARY_CLOUD_NAME", "CLOUDINARY_API_KEY", "CLOUDINARY_API_SECRET" >>

(***************************************************************************)
(* String constants of line 15, as character sequences.                    *)
(***************************************************************************)
production == << "p", "r", "o", "d", "u", "c", "t", "i", "o", "n" >>
port_3001 == << "3", "0", "0", "1" >>

fixed_entries_swapped ==
    << [key |-> "PORT", value |-> port_3001],
       [key |-> "NODE_ENV", value |-> production] >>

fixed_entries ==
    << [key |-> "NODE_ENV", value |-> production],
       [key |-> "PORT", value |-> port_3001] >>

(***************************************************************************)
(* The environments the host process supplies.  The host sets names of the *)
(* list (its first, a middle one, the last), the two names of the fixed    *)
(* entries and a name the script never mentions, each to the empty string  *)
(* or to one of three non-empty values (one needs JSON escaping).          *)
(***************************************************************************)
HostNames ==
    { "MONGODB_URI", "FRONTEND_URL", "STRIPE_SECRET_KEY",
      "CLOUDINARY_API_SECRET", "NODE_ENV", "PORT", "PATH" }

mongodb_x == << "m", "o", "n", "g", "o", "d", "b", ":", "/", "/", "x" >>
sk_test == << "s", "k", "_", "t", "e", "s", "t" >>
quoted == << "a", "\"", "\\" >>

HostValues == { <<>>, mongodb_x, sk_test, quoted }

Environments ==
    UNION { [D -> HostValues] :
            D \in { D \in SUBSET HostNames : Cardinality(D) <= MaxSet } }

Putenv(e, n, v) == [x \in DOMAIN e \cup {n} |-> IF x = n THEN v ELSE e[x]]

Unsetenv(e, n) == [x \in DOMAIN e \ {n} |-> e[x]]

\* The environment of the next invocation: the same, or one name changed.
NextEnvironments(e) ==
    { f \in {e} \cup { Putenv(e, n, v) : n \in HostNames, v \in HostValues }
                \cup { Unsetenv(e, n) : n \in DOMAIN e } :
      Cardinality(DOMAIN f) <= MaxSet }

(***************************************************************************)
(* os.environ primitives.                                                  *)
(***************************************************************************)
\* k in os.environ
contains(e, k) == k \in DOMAIN e

\* os.environ[k]: the value, or KeyError when k is not set
getitem(e, k) ==
    IF k \in DOMAIN e THEN [raised |-> FALSE, value |-> e[k]]
                      ELSE [raised |-> TRUE, value |-> <<>>]

\* truth value of a str: non-empty
truthy(s) == Len(s) > 0

(***************************************************************************)
(* The filter of the list comprehension (line 14):                         *)
(*     k in os.environ and os.environ[k]                                   *)
(* evaluated left to right with short-circuit `and`.  The result is        *)
(* "true", "false" or "raise" (a KeyError escaped).                        *)
(***************************************************************************)
condition_without_contains(e, k) ==
    IF getitem(e, k).raised THEN "raise"
    ELSE IF truthy(getitem(e, k).value) THEN "true" ELSE "false"

condition_without_truth_test(e, k) ==
    IF contains(e, k) THEN "true" ELSE "false"

condition(e, k) ==
    IF ~contains(e, k) THEN "false"
    ELSE IF getitem(e, k).raised THEN "raise"
    ELSE IF truthy(getitem(e, k).value) THEN "true" ELSE "false"

\* The element expression of the comprehension: {'key': k, 'value': os.environ[k]}
element(e, k) == [key |-> k, value |-> getitem(e, k).value]

(***************************************************************************)
(* json.dumps with its default arguments: separators (', ', ': '),         *)
(* ensure_ascii, dict items in insertion order (key, then value).          *)
(***************************************************************************)
item_separator_compact == ","

item_separator == ", "
key_separator == ": "

\* One character of a JSON string.  The characters of the model other than
\* the quote, the backslash, newline and tab are printable ASCII, which the
\* encoder emits as they are.
escape_char(c) ==
    CASE c = "\"" -> "\\\""
      [] c = "\\" -> "\\\\"
      [] c = "\n" -> "\\n"
      [] c = "\t" -> "\\t"
      [] OTHER -> c

RECURSIVE encode_chars(_)
encode_chars(s) ==
    IF s = <<>> THEN "" ELSE escape_char(Head(s)) \o encode_chars(Tail(s))

encode_string(s) == "\"" \o encode_chars(s) \o "\""

\* A name of the model consists of capital letters and underscores, which
\* need no escaping.
encode_name(k) == "\"" \o k \o "\""

encode_dict(r) ==
    "{" \o "\"key\"" \o key_separator \o encode_name(r.key)
        \o item_separator
        \o "\"value\"" \o key_separator \o encode_string(r.value) \o "}"

RECURSIVE encode_items(_)
encode_items(l) ==
    IF l = <<>> THEN ""
    ELSE IF Len(l) = 1 THEN encode_dict(l[1])
    ELSE encode_dict(Head(l)) \o item_separator \o encode_items(Tail(l))

json_dumps(l) == "[" \o encode_items(l) \o "]"

(***************************************************************************)
(* The state after the interpreter has executed lines 1-13 in a fresh      *)
(* process with environment e, about to run the comprehension of line 14.  *)
(***************************************************************************)
Init ==
    /\ environ \in Environments
    /\ keys = keys_literal
    /\ i = 1
    /\ env_vars = <<>>
    /\ stdout = <<>>
    /\ pc = "scan"
    /\ prev = <<>>

(***************************************************************************)
(* One iteration of the comprehension of line 14, for k = keys[i].         *)
(***************************************************************************)
ScanKeyPrepend ==
    /\ pc = "scan"
    /\ i <= Len(keys)
    /\ LET k == keys[i]
           c == condition(environ, k)
       IN  IF c = "raise"
           THEN /\ pc' = "fault"
                /\ UNCHANGED <<i, env_vars>>
           ELSE /\ env_vars' = IF c = "true"
                               THEN <<element(environ, k)>> \o env_vars
                               ELSE env_vars
                /\ i' = i + 1
                /\ pc' = IF i = Len(keys) THEN "append" ELSE "scan"
    /\ UNCHANGED <<environ, keys, stdout, prev>>

ScanKey ==
    /\ pc = "scan"
    /\ i <= Len(keys)
    /\ LET k == keys[i]
           c == condition(environ, k)
       IN  IF c = "raise"
           THEN /\ pc' = "fault"
                /\ UNCHANGED <<i, env_vars>>
           ELSE /\ env_vars' = IF c = "true"
                               THEN Append(env_vars, element(environ, k))
                               ELSE env_vars
                /\ i' = i + 1
                /\ pc' = IF i = Len(keys) THEN "append" ELSE "scan"
    /\ UNCHANGED <<environ, keys, stdout, prev>>

(***************************************************************************)
(* Line 15: env_vars += [NODE_ENV entry, PORT entry].                      *)
(***************************************************************************)
AppendFixedAndExport ==
    /\ pc = "append"
    /\ env_vars' = env_vars \o fixed_entries
    /\ environ' = Putenv(Putenv(environ, "NODE_ENV", production),
                         "PORT", port_3001)
    /\ pc' = "print"
    /\ UNCHANGED <<keys, i, stdout, prev>>

AppendFixed ==
    /\ pc = "append"
    /\ env_vars' = env_vars \o fixed_entries
    /\ pc' = "print"
    /\ UNCHANGED <<environ, keys, i, stdout, prev>>

(***************************************************************************)
(* Line 16: print(json.dumps(env_vars)); the script ends.                  *)
(***************************************************************************)
PrintEachRecord ==
    /\ pc = "print"
    /\ stdout' = stdout \o [j \in 1..Len(env_vars) |->
                              json_dumps(<<env_vars[j]>>) \o "\n"]
    /\ pc' = "done"
    /\ UNCHANGED <<environ, keys, i, env_vars, prev>>

PrintJson ==
    /\ pc = "print"
    /\ stdout' = Append(stdout, json_dumps(env_vars) \o "\n")
    /\ pc' = "done"
    /\ UNCHANGED <<environ, keys, i, env_vars, prev>>

(***************************************************************************)
(* The host runs the script again, in a new process, once the previous     *)
(* process has exited.  The new process starts from the module's initial   *)
(* state; the previous invocation's environment and output are recorded.   *)
(***************************************************************************)
ReinvokeKeepingList ==
    /\ pc \in {"done", "fault"}
    /\ \E e \in NextEnvironments(environ) :
          environ' = e
    /\ prev' = <<[environ |-> environ, stdout |-> stdout]>>
    /\ keys' = keys_literal
    /\ i' = 1
    /\ stdout' = <<>>
    /\ pc' = "scan"
    /\ UNCHANGED env_vars

Reinvoke ==
    /\ pc \in {"done", "fault"}
    /\ \E e \in NextEnvironments(environ) :
          environ' = e
    /\ prev' = <<[environ |-> environ, stdout |-> stdout]>>
    /\ keys' = keys_literal
    /\ i' = 1
    /\ env_vars' = <<>>
    /\ stdout' = <<>>
    /\ pc' = "scan"

Run == ScanKey \/ AppendFixed \/ PrintJson

Next == ScanKey \/ AppendFixed \/ PrintJson \/ Reinvoke

Spec == Init /\ [][Next]_vars

\* A single invocation: the interpreter runs the script to its end.
RunSpec == Init /\ [][Run]_vars /\ WF_vars(Run)

(***************************************************************************)
(* Vocabulary of the claims.                                               *)
(***************************************************************************)
\* Position of a listed name in the name list.
Pos(k) == CHOOSE j \in 1..Len(NameList) : NameList[j] = k

\* The listed names set to a non-empty value in e.
NonEmptyListed(e) == { k \in ListedNames : k \in DOMAIN e /\ e[k] # <<>> }

UnsetOrEmpty(e, k) == k \notin DOMAIN e \/ e[k] = <<>>

Exited == pc = "done"

HasPrev == prev # <<>>

\* C1: when the script has ended, the records are those of the listed names
\* set to a non-empty value, in the order of the 20-name list, each once and
\* with the environment's value, followed by NODE_ENV=production and
\* PORT=3001; with no listed name set they are exactly those two; and the
\* records are what was printed.
C1_OutputRecords ==
    Exited =>
        LET S == NonEmptyListed(environ)
            n == Cardinality(S)
        IN  /\ keys = NameList
            /\ Len(NameList) = 20
            /\ Len(env_vars) = n + 2
            /\ \A j \in 1..n :
                  /\ env_vars[j].key \in S
                  /\ env_vars[j].value = environ[env_vars[j].key]
            /\ \A j, m \in 1..n :
                  j < m => Pos(env_vars[j].key) < Pos(env_vars[m].key)
            /\ env_vars[n + 1] = NodeEnvRecord
            /\ env_vars[n + 2] = PortRecord
            /\ (n = 0 => env_vars = <<NodeEnvRecord, PortRecord>>)
            /\ stdout = <<json_dumps(env_vars) \o "\n">>

C1_Witness ==
    /\ Exited
    /\ Cardinality(NonEmptyListed(environ)) = 2
    /\ Len(env_vars) = 4
    /\ env_vars[1].key = "FRONTEND_URL"
    /\ env_vars[2].key = "CLOUDINARY_API_SECRET"

\* C2: once line 15 has run, the last two records are NODE_ENV=production
\* then PORT=3001, whatever the environment; they are appended only after
\* the whole list has been scanned, and are absent before.
C2_TrailingEntries ==
    /\ pc \in {"print", "done"} =>
          /\ i = Len(NameList) + 1
          /\ Len(env_vars) >= 2
          /\ env_vars[Len(env_vars) - 1] = NodeEnvRecord
          /\ env_vars[Len(env_vars)] = PortRecord
    /\ pc \in {"scan", "append"} =>
          \A j \in 1..Len(env_vars) :
              env_vars[j] # NodeEnvRecord /\ env_vars[j] # PortRecord

C2_Witness ==
    /\ Exited
    /\ Len(env_vars) = 3
    /\ "PORT" \in DOMAIN environ
    /\ environ["PORT"] # PortRecord.value

\* C4: in every state, every record's key is a listed name or NODE_ENV or
\* PORT, and a record of a listed name exists only for a name set to a
\* non-empty value, which is the record's value.
C4_RecordKeys ==
    \A j \in 1..Len(env_vars) :
        LET r == env_vars[j]
        IN  /\ r.key \in ListedNames \cup {"NODE_ENV", "PORT"}
            /\ r.key \in ListedNames =>
                  /\ r.key \in DOMAIN environ
                  /\ environ[r.key] # <<>>
                  /\ r.value = environ[r.key]
                  /\ r.value # <<>>

C4_Witness ==
    /\ Exited
    /\ "PATH" \in DOMAIN environ
    /\ environ["PATH"] # <<>>
    /\ "MONGODB_URI" \in DOMAIN environ
    /\ environ["MONGODB_URI"] # <<>>
    /\ Len(env_vars) = 3

\* C8: nothing is written to standard output before the scan has ended and
\* both trailing records are in the list; when the script has ended exactly
\* one text has been written, the serialized final list.
C8_PrintedOnce ==
    /\ pc \in {"scan", "append", "print"} => stdout = <<>>
    /\ Exited =>
          /\ Len(stdout) = 1
          /\ i = Len(NameList) + 1
          /\ Len(env_vars) >= 2
          /\ SubSeq(env_vars, Len(env_vars) - 1, Len(env_vars))
                = <<NodeEnvRecord, PortRecord>>
          /\ stdout[1] = json_dumps(env_vars) \o "\n"

C8_Witness ==
    /\ Exited
    /\ Len(stdout) = 1
    /\ Len(env_vars) = 4

\* Two environments that differ only in that some listed names are unset in
\* one and set to the empty string in the other.
DifferOnlyUnsetVsEmpty(e1, e2) ==
    \A n \in DOMAIN e1 \cup DOMAIN e2 :
        \/ n \in DOMAIN e1 /\ n \in DOMAIN e2 /\ e1[n] = e2[n]
        \/ n \in ListedNames /\ UnsetOrEmpty(e1, n) /\ UnsetOrEmpty(e2, n)

\* Two environments that agree on name n.
AgreeOn(e1, e2, n) ==
    /\ n \in DOMAIN e1 <=> n \in DOMAIN e2
    /\ n \in DOMAIN e1 => e1[n] = e2[n]

\* C3: a listed name set to the empty string is treated as an unset one: no
\* record has such a name as its key, and two invocations whose environments
\* differ only in unset versus empty listed names print the same text.
C3_EmptyAsUnset ==
    Exited =>
        /\ \A k \in ListedNames :
              UnsetOrEmpty(environ, k) =>
                  \A j \in 1..Len(env_vars) : env_vars[j].key # k
        /\ (HasPrev /\ DifferOnlyUnsetVsEmpty(prev[1].environ, environ)) =>
              stdout = prev[1].stdout

C3_Witness ==
    /\ Exited
    /\ HasPrev
    /\ DifferOnlyUnsetVsEmpty(prev[1].environ, environ)
    /\ "FRONTEND_URL" \notin DOMAIN prev[1].environ
    /\ "FRONTEND_URL" \in DOMAIN environ
    /\ environ["FRONTEND_URL"] = <<>>
    /\ Len(env_vars) = 3

\* C5: two successive invocations with the same environment print the same
\* text.
C5_Idempotent ==
    (Exited /\ HasPrev /\ prev[1].environ = environ) =>
        stdout = prev[1].stdout

C5_Witness ==
    /\ Exited
    /\ HasPrev
    /\ prev[1].environ = environ
    /\ Len(prev[1].stdout) = 1
    /\ Len(env_vars) = 4

\* The environment of the scenario of C6: MONGODB_URI=mongodb://x,
\* STRIPE_SECRET_KEY=sk_test, every other listed name unset or empty.
Scenario ==
    /\ "MONGODB_URI" \in DOMAIN environ
    /\ environ["MONGODB_URI"]
          = << "m", "o", "n", "g", "o", "d", "b", ":", "/", "/", "x" >>
    /\ "STRIPE_SECRET_KEY" \in DOMAIN environ
    /\ environ["STRIPE_SECRET_KEY"] = << "s", "k", "_", "t", "e", "s", "t" >>
    /\ \A k \in ListedNames \ {"MONGODB_URI", "STRIPE_SECRET_KEY"} :
          UnsetOrEmpty(environ, k)

ScenarioRecords ==
    << [key |-> "MONGODB_URI",
        value |-> << "m", "o", "n", "g", "o", "d", "b", ":", "/", "/", "x" >>],
       [key |-> "STRIPE_SECRET_KEY",
        value |-> << "s", "k", "_", "t", "e", "s", "t" >>],
       NodeEnvRecord, PortRecord >>

CompactDocument ==
    "[{\"key\":\"MONGODB_URI\",\"value\":\"mongodb://x\"},"
    \o "{\"key\":\"STRIPE_SECRET_KEY\",\"value\":\"sk_test\"},"
    \o "{\"key\":\"NODE_ENV\",\"value\":\"production\"},"
    \o "{\"key\":\"PORT\",\"value\":\"3001\"}]"

SpacedDocument ==
    "[{\"key\": \"MONGODB_URI\", \"value\": \"mongodb://x\"}, "
    \o "{\"key\": \"STRIPE_SECRET_KEY\", \"value\": \"sk_test\"}, "
    \o "{\"key\": \"NODE_ENV\", \"value\": \"production\"}, "
    \o "{\"key\": \"PORT\", \"value\": \"3001\"}]"

\* C6 as claimed: in the scenario the text written to standard output is
\* the document without any space after "," and ":" (with or without a
\* line end).
C6_CompactText ==
    (Exited /\ Scenario) =>
        /\ env_vars = ScenarioRecords
        /\ Len(stdout) = 1
        /\ stdout[1] \in {CompactDocument, CompactDocument \o "\n"}

\* C6 as amended: in the scenario the list holds exactly the four records,
\* in this order, and the text written is the document with ", " between
\* items and ": " after each field name, followed by a line end.
C6_SpacedText ==
    (Exited /\ Scenario) =>
        /\ env_vars = ScenarioRecords
        /\ stdout = <<SpacedDocument \o "\n">>

C6_Witness ==
    /\ Exited
    /\ Scenario
    /\ Len(stdout) = 1

\* C7: a single invocation never ends in a KeyError and always reaches its
\* end having printed, whichever listed names are unset or empty.
C7_NoErrorOutcome ==
    /\ [](pc # "fault")
    /\ <>(Exited /\ Len(stdout) = 1)

C7_Witness ==
    /\ Exited
    /\ Len(stdout) = 1
    /\ "MONGODB_URI" \notin DOMAIN environ
    /\ "FRONTEND_URL" \in DOMAIN environ
    /\ environ["FRONTEND_URL"] = <<>>
    /\ "STRIPE_SECRET_KEY" \in DOMAIN environ
    /\ environ["STRIPE_SECRET_KEY"] # <<>>

\* C9: no step of a running invocation changes the environment or the name
\* list (nor the record of the previous invocation); only the list being
\* built, the iterator, the control point and standard output change.
C9_ReadOnly ==
    [][(pc \in {"scan", "append", "print"}) =>
          (environ' = environ /\ keys' = keys /\ keys = NameList
           /\ prev' = prev)]_vars

C9_Witness ==
    /\ Exited
    /\ HasPrev
    /\ Cardinality(DOMAIN environ) = 2
    /\ Len(env_vars) = 3
    /\ keys = NameList

\* C10: the text printed depends on the listed names only: two invocations
\* whose environments agree on every listed name print the same text;
\* NODE_ENV and PORT always carry production and 3001, whatever the
\* environment sets them to; no two records have the same key.
C10_ListedNamesOnly ==
    Exited =>
        /\ (HasPrev /\ \A k \in ListedNames :
                          AgreeOn(prev[1].environ, environ, k)) =>
              stdout = prev[1].stdout
        /\ \A j \in 1..Len(env_vars) :
              /\ env_vars[j].key = "NODE_ENV" => env_vars[j] = NodeEnvRecord
              /\ env_vars[j].key = "PORT" => env_vars[j] = PortRecord
        /\ \A j, m \in 1..Len(env_vars) :
              j # m => env_vars[j].key # env_vars[m].key

C10_Witness ==
    /\ Exited
    /\ HasPrev
    /\ \A k \in ListedNames : AgreeOn(prev[1].environ, environ, k)
    /\ "NODE_ENV" \notin DOMAIN prev[1].environ
    /\ "NODE_ENV" \in DOMAIN environ
    /\ environ["NODE_ENV"] # <<>>
    /\ environ["NODE_ENV"] # NodeEnvRecord.value
    /\ Len(env_vars) = 3

====
